---- MODULE Spec2Model ----
(***************************************************************************)
(* The Home component of the image compressor (src/unnamed/part_000): its  *)
(* React state, its event handlers and the asynchronous continuations and  *)
(* callbacks they leave pending.  Every action is one uninterrupted piece  *)
(* of JavaScript: a handler up to its first await, or the continuation /   *)
(* callback that runs when an awaited operation or a FileReader finishes.  *)
(* State setters called inside one such piece are committed together.      *)
(* A handler is a closure over the render in which the event fired, so a   *)
(* processImage call works on the selectedFile, completedCrop and          *)
(* outputFormat of its click; imgRef.current is read at the click as well. *)
(* quality, maxWidth, maxHeight and the in-progress crop (lines 16-18, 23) *)
(* are only handed to the compression library and to ReactCrop and decide  *)
(* no branch, so they are not state here; Date.now() in the download name  *)
(* is left out likewise.                                                   *)
(***************************************************************************)
EXTENDS Integers, Sequences, FiniteSets, TLC

\* ---------------------------------------------------------------- bounds
\* file selections plus clicks on "Compress & Resize" in one behaviour
MaxOps == 3
\* largest displayed width / height of the crop-geometry check
MaxDim == 3

\* ------------------------------------------------------------- constants
\* useState<...>(null) / useState<PixelCrop>() : the "no value" of a state cell
Null == [null |-> TRUE]

\* the four <option> values of the format selector
Formats == {"jpeg", "png", "webp", "pdf"}

\* the options the user picks among here: one raster encoding and the document
FormatChoices == {"jpeg", "pdf"}

\* the files the user can pick: declared MIME type, extension of the name, size
FileChoices ==
  { [type |-> "image/jpeg", ext |-> "jpg",  size |-> 1536],
    [type |-> "",           ext |-> "HEIC", size |-> 2048] }

\* byte sizes the compression library / jsPDF may report for an output blob
OutSizes == {512}

\* the <img> element ReactCrop wraps, as the browser lays it out in the preview
PreviewImage == [naturalWidth |-> 4, naturalHeight |-> 2, width |-> 2, height |-> 1]

\* the rectangles ReactCrop's onComplete reports in the preview
CropChoices == { [x |-> 1, y |-> 0, width |-> 1, height |-> 1] }

VARIABLES
  selectedFile,    \* useState<File | null>
  originalImage,   \* useState<string | null> : data URL of the preview
  processedImage,  \* useState<string | null> : data URL / object URL of the output
  isProcessing,    \* useState(false)
  outputFormat,    \* useState('jpeg')
  showCrop,        \* useState(false)
  completedCrop,   \* useState<PixelCrop>()
  originalSize,    \* useState<number>(0)
  compressedSize,  \* useState<number>(0)
  heicTasks,       \* handleFileSelect calls suspended at `await heic2any(...)`
  origReaders,     \* FileReaders started by handleFileSelect, onload pending
  runs,            \* processImage calls not yet finished, in click order
  alertMsg,        \* text of the last alert() shown
  lastDownload,    \* the last <a download> that downloadImage clicked
  nUploads,        \* number of File objects handed to handleFileSelect so far
  nRuns,           \* number of processImage calls started so far
  lastEnded,       \* what the processImage call that finished last had stored
  compressedFrom,  \* upload whose pixels the bytes counted in compressedSize encode
  image,           \* getCroppedImage argument: the HTMLImageElement's geometry
  cropArg,         \* getCroppedImage argument: the PixelCrop
  canvas           \* the canvas getCroppedImage last drew (Null before any call)

reactState == <<selectedFile, originalImage, processedImage, isProcessing, outputFormat,
                showCrop, completedCrop, originalSize, compressedSize>>
pending    == <<heicTasks, origReaders, runs>>
history    == <<alertMsg, lastDownload, nUploads, nRuns, lastEnded, compressedFrom>>
cropCheck  == <<image, cropArg, canvas>>
vars       == <<reactState, pending, history, cropCheck>>

\* ------------------------------------------------------- pure functions
\* String.prototype.toLowerCase on the extensions that occur
ToLowerCase(s) == IF s = "HEIC" THEN "heic" ELSE s

\* line 39: file.type === 'image/heic' || file.name.toLowerCase().endsWith('.heic')
IsHeic(file) == file.type = "image/heic" \/ ToLowerCase(file.ext) = "heic"

\* lines 46-50: new File([convertedBlob], name.replace(/\.heic$/i, '.jpg'), {type: 'image/jpeg'})
ConvertedFile(file) ==
  [id |-> file.id, type |-> "image/jpeg",
   ext |-> IF ToLowerCase(file.ext) = "heic" THEN "jpg" ELSE file.ext,
   size |-> file.size, converted |-> TRUE]

\* FileReader.readAsDataURL(file): a data URL carrying the file's bytes
DataURL(file) == [url |-> "data", of |-> file.id, type |-> file.type]

RECURSIVE GCD(_, _)
GCD(a, b) == IF b = 0 THEN a ELSE GCD(b, a % b)

\* a / b on non-negative numbers with b # 0, kept exact as a reduced fraction
\* (JavaScript rounds the quotient to a double; where it is a whole number,
\* as for a display at half the native size, the double is exact too)
Div(a, b) == LET g == GCD(a, b) IN [n |-> a \div g, d |-> b \div g]

\* k * q for a whole number k and a fraction q
Times(k, q) == Div(k * q.n, q.d)

\* getCroppedImage with the canvas sized to the scaled source rectangle
getCroppedImageScaledCanvas(img, crop) ==
  LET scaleX == Div(img.naturalWidth, img.width)
      scaleY == Div(img.naturalHeight, img.height)
  IN [width  |-> (crop.width * scaleX.n) \div scaleX.d,
      height |-> (crop.height * scaleY.n) \div scaleY.d,
      sx |-> Times(crop.x, scaleX),
      sy |-> Times(crop.y, scaleY),
      sw |-> Times(crop.width, scaleX),
      sh |-> Times(crop.height, scaleY)]

\* lines 115-135: the canvas getCroppedImage allocates and the source
\* rectangle (sx, sy, sw, sh) it passes to drawImage
getCroppedImage(img, crop) ==
  LET scaleX == Div(img.naturalWidth, img.width)
      scaleY == Div(img.naturalHeight, img.height)
  IN [width  |-> crop.width,
      height |-> crop.height,
      sx |-> Times(crop.x, scaleX),
      sy |-> Times(crop.y, scaleY),
      sw |-> Times(crop.width, scaleX),
      sh |-> Times(crop.height, scaleY)]

\* lines 287-301: imgRef is attached only to the <img> inside <ReactCrop>,
\* which is mounted when a file is selected, a preview exists and showCrop
ImgRefCurrent ==
  IF selectedFile # Null /\ originalImage # Null /\ showCrop
  THEN [src |-> originalImage, geom |-> PreviewImage]
  ELSE Null

\* the six cells handleFileSelect is about, as found when a call begins
Snapshot ==
  [selectedFile |-> selectedFile, originalSize |-> originalSize,
   originalImage |-> originalImage, processedImage |-> processedImage,
   completedCrop |-> completedCrop, showCrop |-> showCrop]

\* ------------------------------------------------------------------ Init
InitApp ==
  /\ selectedFile = Null
  /\ originalImage = Null
  /\ processedImage = Null
  /\ isProcessing = FALSE
  /\ outputFormat = "jpeg"
  /\ showCrop = FALSE
  /\ completedCrop = Null
  /\ originalSize = 0
  /\ compressedSize = 0
  /\ heicTasks = {}
  /\ origReaders = {}
  /\ runs = <<>>
  /\ alertMsg = ""
  /\ lastDownload = Null
  /\ nUploads = 0
  /\ nRuns = 0
  /\ lastEnded = Null
  /\ compressedFrom = 0

Init ==
  /\ InitApp
  /\ image = PreviewImage
  /\ cropArg = Null
  /\ canvas = Null

\* --------------------------------------------------- handleFileSelect
\* the File object of the next change event
NewFile(choice) ==
  [id |-> nUploads + 1, type |-> choice.type, ext |-> choice.ext,
   size |-> choice.size, converted |-> FALSE]

\* lines 65-67, reached on every path that passes line 33
ResetOutputAndCrop ==
  /\ processedImage' = Null
  /\ completedCrop' = Null
  /\ showCrop' = FALSE

\* lines 32-33: the change event carries no file
HandleFileSelectNoFile ==
  /\ UNCHANGED vars

\* lines 32-37, 59-67: a file that is not HEIC; the whole handler is synchronous
HandleFileSelectPlain(choice) ==
  LET file == NewFile(choice) IN
  /\ nUploads + nRuns < MaxOps
  /\ ~IsHeic(file)
  /\ nUploads' = nUploads + 1
  /\ selectedFile' = file
  /\ originalSize' = file.size
  /\ origReaders' = origReaders \cup {file}
  /\ ResetOutputAndCrop
  /\ UNCHANGED <<originalImage, isProcessing, outputFormat, compressedSize>>
  /\ UNCHANGED <<heicTasks, runs>>
  /\ UNCHANGED <<alertMsg, lastDownload, nRuns, lastEnded, compressedFrom, cropCheck>>

\* lines 32-42: a HEIC file, up to the first await
HandleFileSelectHeic(choice) ==
  LET file == NewFile(choice) IN
  /\ nUploads + nRuns < MaxOps
  /\ IsHeic(file)
  /\ nUploads' = nUploads + 1
  /\ selectedFile' = file
  /\ originalSize' = file.size
  /\ heicTasks' = heicTasks \cup {[file |-> file, before |-> Snapshot]}
  /\ UNCHANGED <<originalImage, processedImage, isProcessing, outputFormat, showCrop,
                 completedCrop, compressedSize>>
  /\ UNCHANGED <<origReaders, runs>>
  /\ UNCHANGED <<alertMsg, lastDownload, nRuns, lastEnded, compressedFrom, cropCheck>>

\* lines 42-54, 65-67: heic2any resolved
HeicConverted(task) ==
  LET convertedFile == ConvertedFile(task.file) IN
  /\ task \in heicTasks
  /\ heicTasks' = heicTasks \ {task}
  /\ origReaders' = origReaders \cup {convertedFile}
  /\ selectedFile' = convertedFile
  /\ ResetOutputAndCrop
  /\ UNCHANGED <<originalImage, isProcessing, outputFormat, originalSize, compressedSize>>
  /\ UNCHANGED <<runs, history, cropCheck>>

\* the catch block returning after the alert, so that lines 65-67 are skipped
HeicFailedReturns(task) ==
  /\ task \in heicTasks
  /\ heicTasks' = heicTasks \ {task}
  /\ alertMsg' = "Error converting HEIC file"
  /\ UNCHANGED <<reactState, origReaders, runs>>
  /\ UNCHANGED <<lastDownload, nUploads, nRuns, lastEnded, compressedFrom, cropCheck>>

\* lines 55-58, 65-67: the import or heic2any rejected
HeicFailed(task) ==
  /\ task \in heicTasks
  /\ heicTasks' = heicTasks \ {task}
  /\ alertMsg' = "Error converting HEIC file"
  /\ ResetOutputAndCrop
  /\ UNCHANGED <<selectedFile, originalImage, isProcessing, outputFormat, originalSize,
                 compressedSize>>
  /\ UNCHANGED <<origReaders, runs>>
  /\ UNCHANGED <<lastDownload, nUploads, nRuns, lastEnded, compressedFrom, cropCheck>>

\* lines 52, 61: reader.onload of a preview reader
OrigReaderLoaded(file) ==
  /\ file \in origReaders
  /\ origReaders' = origReaders \ {file}
  /\ originalImage' = DataURL(file)
  /\ UNCHANGED <<selectedFile, processedImage, isProcessing, outputFormat, showCrop,
                 completedCrop, originalSize, compressedSize>>
  /\ UNCHANGED <<heicTasks, runs, history, cropCheck>>

\* lines 51-53, 60-62: the reader fires error instead; no onerror is installed
OrigReaderFailed(file) ==
  /\ file \in origReaders
  /\ origReaders' = origReaders \ {file}
  /\ UNCHANGED <<reactState, heicTasks, runs, history, cropCheck>>

\* ------------------------------------------------------- crop controls
\* the button handler also discarding the rectangle of the session it closes
ToggleCropDiscardsCrop ==
  /\ selectedFile # Null
  /\ showCrop' = ~showCrop
  /\ completedCrop' = Null
  /\ UNCHANGED <<selectedFile, originalImage, processedImage, isProcessing, outputFormat,
                 originalSize, compressedSize>>
  /\ UNCHANGED <<pending, history, cropCheck>>

\* line 316: the Crop Image / Done Cropping button, rendered once a file is selected
ToggleCrop ==
  /\ selectedFile # Null
  /\ showCrop' = ~showCrop
  /\ UNCHANGED <<selectedFile, originalImage, processedImage, isProcessing, outputFormat,
                 completedCrop, originalSize, compressedSize>>
  /\ UNCHANGED <<pending, history, cropCheck>>

\* line 293: ReactCrop's onComplete, possible while ReactCrop is mounted
CropComplete(c) ==
  /\ ImgRefCurrent # Null
  /\ completedCrop' = c
  /\ UNCHANGED <<selectedFile, originalImage, processedImage, isProcessing, outputFormat,
                 showCrop, originalSize, compressedSize>>
  /\ UNCHANGED <<pending, history, cropCheck>>

\* line 273: the format <select>, rendered once a file is selected
SetOutputFormat(f) ==
  /\ selectedFile # Null
  /\ f \in Formats
  /\ f # outputFormat
  /\ outputFormat' = f
  /\ UNCHANGED <<selectedFile, originalImage, processedImage, isProcessing, showCrop,
                 completedCrop, originalSize, compressedSize>>
  /\ UNCHANGED <<pending, history, cropCheck>>

\* ------------------------------------------------------- processImage
\* line 81: new File([croppedBlob], selectedFile.name, {type: selectedFile.type})
CroppedFile(file) ==
  [id |-> file.id, type |-> file.type, ext |-> file.ext, size |-> 0,
   converted |-> file.converted]

\* the URL processImage stores: a data URL (line 104) or an object URL (line 99),
\* with what its bytes are: whose pixels, which encoding, cropped or not
ResultURL(kind, run) ==
  [url |-> kind, of |-> run.pixels, fmt |-> run.fmt, cropped |-> run.canvas # Null]

\* does line 79 take the crop branch in the current render
CropApplies == completedCrop # Null /\ ImgRefCurrent # Null

\* the process button is rendered once a file is selected (line 223) and is
\* disabled while isProcessing (line 324)
ProcessButtonEnabled == selectedFile # Null /\ ~isProcessing

\* a processImage call: where it is suspended, what its closure captured
\* (line 76 fileToProcess, line 90 outputFormat, line 79 completedCrop), whose
\* pixels it works on and the canvas it drew
NewRun(pc, file, pixels, cnv) ==
  [pc |-> pc, fmt |-> outputFormat, hadCrop |-> completedCrop # Null,
   file |-> file, pixels |-> pixels, canvas |-> cnv]

\* the sequence without its i-th element
Remove(seq, i) == SubSeq(seq, 1, i - 1) \o SubSeq(seq, i + 1, Len(seq))

\* a call reaches its end having stored (or not) a size and an image
EndRun(i, wroteSize, wroteImage) ==
  /\ runs' = Remove(runs, i)
  /\ lastEnded' = [wroteSize |-> wroteSize, wroteImage |-> wroteImage]

\* lines 107-110 followed by line 112: the catch block, then the reset
CatchProcessingError ==
  /\ alertMsg' = "Error processing image"
  /\ isProcessing' = FALSE

\* lines 70-80, 115-145: click with a crop to apply; getCroppedImage draws the
\* canvas and processImage suspends at `await getCroppedImage(...)`
ProcessImageCrop ==
  /\ ProcessButtonEnabled
  /\ nUploads + nRuns < MaxOps
  /\ CropApplies
  /\ nRuns' = nRuns + 1
  /\ isProcessing' = TRUE
  /\ runs' = Append(runs, NewRun("crop", selectedFile, ImgRefCurrent.src.of,
                                 getCroppedImage(ImgRefCurrent.geom, completedCrop)))
  /\ UNCHANGED <<selectedFile, originalImage, processedImage, outputFormat, showCrop,
                 completedCrop, originalSize, compressedSize>>
  /\ UNCHANGED <<heicTasks, origReaders>>
  /\ UNCHANGED <<alertMsg, lastDownload, nUploads, lastEnded, compressedFrom, cropCheck>>

\* lines 70-80, 121-123, 107-112: getContext('2d') returns null; the throw is
\* caught before any await, so setIsProcessing(true) and (false) land together
ProcessImageNoContext ==
  /\ ProcessButtonEnabled
  /\ nUploads + nRuns < MaxOps
  /\ CropApplies
  /\ nRuns' = nRuns + 1
  /\ CatchProcessingError
  /\ lastEnded' = [wroteSize |-> FALSE, wroteImage |-> FALSE]
  /\ UNCHANGED <<selectedFile, originalImage, processedImage, outputFormat, showCrop,
                 completedCrop, originalSize, compressedSize>>
  /\ UNCHANGED <<pending, lastDownload, nUploads, compressedFrom, cropCheck>>

\* lines 70-79, 85-93: click with no crop to apply; suspends at `await imageCompression`
ProcessImageNoCrop ==
  /\ ProcessButtonEnabled
  /\ nUploads + nRuns < MaxOps
  /\ ~CropApplies
  /\ nRuns' = nRuns + 1
  /\ isProcessing' = TRUE
  /\ runs' = Append(runs, NewRun("compress", selectedFile, selectedFile.id, Null))
  /\ UNCHANGED <<selectedFile, originalImage, processedImage, outputFormat, showCrop,
                 completedCrop, originalSize, compressedSize>>
  /\ UNCHANGED <<heicTasks, origReaders>>
  /\ UNCHANGED <<alertMsg, lastDownload, nUploads, lastEnded, compressedFrom, cropCheck>>

\* lines 138-144, 81, 85-93: toBlob delivered a blob; on to imageCompression
CropBlobReady(i) ==
  /\ runs[i].pc = "crop"
  /\ runs[i].canvas.width > 0
  /\ runs[i].canvas.height > 0
  /\ runs' = [runs EXCEPT ![i].pc = "compress", ![i].file = CroppedFile(runs[i].file)]
  /\ UNCHANGED <<reactState, heicTasks, origReaders, history, cropCheck>>

\* lines 138-142, 107-112: toBlob delivered null ('Canvas is empty')
CropBlobEmpty(i) ==
  /\ runs[i].pc = "crop"
  /\ CatchProcessingError
  /\ EndRun(i, FALSE, FALSE)
  /\ UNCHANGED <<selectedFile, originalImage, processedImage, outputFormat, showCrop,
                 completedCrop, originalSize, compressedSize>>
  /\ UNCHANGED <<heicTasks, origReaders>>
  /\ UNCHANGED <<lastDownload, nUploads, nRuns, compressedFrom, cropCheck>>

\* lines 93-97: imageCompression resolved and the format is pdf; suspends at
\* `await convertToPDF(compressedFile)`
CompressedForPdf(i) ==
  /\ runs[i].pc = "compress"
  /\ runs[i].fmt = "pdf"
  /\ runs' = [runs EXCEPT ![i].pc = "pdf"]
  /\ UNCHANGED <<reactState, heicTasks, origReaders, history, cropCheck>>

\* lines 93-96, 101-105, 112: imageCompression resolved, raster format: the size
\* is stored, the result reader is started and isProcessing is reset
CompressedRaster(i, size) ==
  /\ runs[i].pc = "compress"
  /\ runs[i].fmt # "pdf"
  /\ compressedSize' = size
  /\ compressedFrom' = runs[i].pixels
  /\ isProcessing' = FALSE
  /\ runs' = [runs EXCEPT ![i].pc = "read"]
  /\ UNCHANGED <<selectedFile, originalImage, processedImage, outputFormat, showCrop,
                 completedCrop, originalSize>>
  /\ UNCHANGED <<heicTasks, origReaders>>
  /\ UNCHANGED <<alertMsg, lastDownload, nUploads, nRuns, lastEnded, cropCheck>>

\* lines 93, 107-112: imageCompression rejected
CompressFailed(i) ==
  /\ runs[i].pc = "compress"
  /\ CatchProcessingError
  /\ EndRun(i, FALSE, FALSE)
  /\ UNCHANGED <<selectedFile, originalImage, processedImage, outputFormat, showCrop,
                 completedCrop, originalSize, compressedSize>>
  /\ UNCHANGED <<heicTasks, origReaders>>
  /\ UNCHANGED <<lastDownload, nUploads, nRuns, compressedFrom, cropCheck>>

\* lines 148-167, 97-100, 112: convertToPDF resolved
PdfReady(i, size) ==
  /\ runs[i].pc = "pdf"
  /\ compressedSize' = size
  /\ compressedFrom' = runs[i].pixels
  /\ processedImage' = ResultURL("blob", runs[i])
  /\ isProcessing' = FALSE
  /\ EndRun(i, TRUE, TRUE)
  /\ UNCHANGED <<selectedFile, originalImage, outputFormat, showCrop, completedCrop,
                 originalSize>>
  /\ UNCHANGED <<heicTasks, origReaders>>
  /\ UNCHANGED <<alertMsg, lastDownload, nUploads, nRuns, cropCheck>>

\* lines 149-166: inside convertToPDF the reader or the Image fires error, or
\* the img.onload callback throws; the promise has no reject path and never
\* settles, so processImage stays suspended at line 97
PdfNeverSettles(i) ==
  /\ runs[i].pc = "pdf"
  /\ runs' = [runs EXCEPT ![i].pc = "hung"]
  /\ UNCHANGED <<reactState, heicTasks, origReaders, history, cropCheck>>

\* line 104: reader.onload of the result reader
ResultLoaded(i) ==
  /\ runs[i].pc = "read"
  /\ processedImage' = ResultURL("data", runs[i])
  /\ EndRun(i, TRUE, TRUE)
  /\ UNCHANGED <<selectedFile, originalImage, isProcessing, outputFormat, showCrop,
                 completedCrop, originalSize, compressedSize>>
  /\ UNCHANGED <<heicTasks, origReaders>>
  /\ UNCHANGED <<alertMsg, lastDownload, nUploads, nRuns, compressedFrom, cropCheck>>

\* lines 103-105: the result reader fires error instead; no onerror is installed
ResultReadFailed(i) ==
  /\ runs[i].pc = "read"
  /\ EndRun(i, TRUE, FALSE)
  /\ UNCHANGED <<reactState, heicTasks, origReaders>>
  /\ UNCHANGED <<alertMsg, lastDownload, nUploads, nRuns, compressedFrom, cropCheck>>

\* ------------------------------------------------------- downloadImage
\* line 174: the name given to the download, without the Date.now() stamp
DownloadName == [prefix |-> "compressed-", ext |-> outputFormat]

\* lines 169-176; the button is rendered while processedImage is set (line 330)
DownloadImage ==
  /\ selectedFile # Null
  /\ processedImage # Null
  /\ lastDownload' = [href |-> processedImage, download |-> DownloadName]
  /\ UNCHANGED <<reactState, pending>>
  /\ UNCHANGED <<alertMsg, nUploads, nRuns, lastEnded, compressedFrom, cropCheck>>

\* ------------------------------------------------------------------ Next
\* the steps the browser takes on its own once their operation has finished
AsyncStep ==
  \/ \E t \in heicTasks : HeicConverted(t) \/ HeicFailed(t)
  \/ \E f \in origReaders : OrigReaderLoaded(f) \/ OrigReaderFailed(f)
  \/ \E i \in DOMAIN runs :
       \/ CropBlobReady(i) \/ CropBlobEmpty(i)
       \/ CompressedForPdf(i) \/ CompressFailed(i)
       \/ PdfNeverSettles(i) \/ ResultLoaded(i) \/ ResultReadFailed(i)
       \/ \E s \in OutSizes : CompressedRaster(i, s) \/ PdfReady(i, s)

Next ==
  \/ HandleFileSelectNoFile
  \/ \E c \in FileChoices : HandleFileSelectPlain(c)
  \/ \E c \in FileChoices : HandleFileSelectHeic(c)
  \/ \E t \in heicTasks : HeicConverted(t)
  \/ \E t \in heicTasks : HeicFailed(t)
  \/ \E f \in origReaders : OrigReaderLoaded(f)
  \/ \E f \in origReaders : OrigReaderFailed(f)
  \/ ToggleCrop
  \/ \E c \in CropChoices : CropComplete(c)
  \/ \E f \in FormatChoices : SetOutputFormat(f)
  \/ ProcessImageCrop
  \/ ProcessImageNoContext
  \/ ProcessImageNoCrop
  \/ \E i \in DOMAIN runs : CropBlobReady(i)
  \/ \E i \in DOMAIN runs : CropBlobEmpty(i)
  \/ \E i \in DOMAIN runs : CompressedForPdf(i)
  \/ \E i \in DOMAIN runs, s \in OutSizes : CompressedRaster(i, s)
  \/ \E i \in DOMAIN runs : CompressFailed(i)
  \/ \E i \in DOMAIN runs, s \in OutSizes : PdfReady(i, s)
  \/ \E i \in DOMAIN runs : PdfNeverSettles(i)
  \/ \E i \in DOMAIN runs : ResultLoaded(i)
  \/ \E i \in DOMAIN runs : ResultReadFailed(i)
  \/ DownloadImage

Spec == Init /\ [][Next]_vars

\* the event loop runs every callback whose operation has finished
FairSpec == Spec /\ WF_vars(AsyncStep)

\* ------------------------------------------- getCroppedImage on its own
\* <img> geometries: displayed size up to MaxDim, native size up to twice that
Images ==
  [naturalWidth : 1..(2 * MaxDim), naturalHeight : 1..(2 * MaxDim),
   width : 1..MaxDim, height : 1..MaxDim]

\* the PixelCrops that lie within the displayed bounds of img
CropsWithin(img) ==
  { c \in [x : 0..MaxDim, y : 0..MaxDim, width : 0..MaxDim, height : 0..MaxDim] :
      c.x + c.width <= img.width /\ c.y + c.height <= img.height }

InitCrop ==
  /\ InitApp
  /\ image \in Images
  /\ cropArg \in CropsWithin(image)
  /\ canvas = Null

\* line 80: the call getCroppedImage(imgRef.current, completedCrop)
CallGetCroppedImage ==
  /\ canvas = Null
  /\ canvas' = getCroppedImage(image, cropArg)
  /\ UNCHANGED <<reactState, pending, history, image, cropArg>>

NextCrop == CallGetCroppedImage

CropSpec == InitCrop /\ [][NextCrop]_vars

\* ================================================================ claims
\* calls of handleFileSelect that have run to their last line
SelectsCompleted == nUploads - Cardinality(heicTasks)

\* a step in which some call of handleFileSelect runs to its last line
SelectCompletes == SelectsCompleted' > SelectsCompleted

\* a step of the Crop Image / Done Cropping button: showCrop flips and no
\* handleFileSelect call completes (the only other writer of showCrop)
ToggleStep == showCrop' # showCrop /\ ~SelectCompletes

\* C1: whenever a call of handleFileSelect with a file runs to completion
\* (plain file, HEIC converted, HEIC conversion failed), the state it leaves
\* has processedImage null, completedCrop undefined and showCrop false.
C1_SelectClearsOutputAndCrop ==
  [][SelectCompletes =>
       processedImage' = Null /\ completedCrop' = Null /\ showCrop' = FALSE]_vars

\* C1 witness: every selection has completed, a processImage call had stored
\* an image, a HEIC conversion has failed, and output and crop state are clear.
C1_Witness ==
  /\ nUploads > 0
  /\ SelectsCompleted = nUploads
  /\ lastEnded # Null
  /\ lastEnded.wroteImage
  /\ alertMsg = "Error converting HEIC file"
  /\ processedImage = Null
  /\ completedCrop = Null
  /\ ~showCrop

\* C2 (as claimed): when the HEIC conversion of a selected file fails, an
\* error is shown and selectedFile, originalSize, originalImage,
\* processedImage, completedCrop and showCrop have the values they had before
\* the file was selected.
C2_HeicFailureLeavesStateUntouched ==
  [][\A t \in heicTasks :
       HeicFailed(t) =>
         alertMsg' = "Error converting HEIC file" /\ Snapshot' = t.before]_vars

\* C3 (as claimed): a processImage call that has finished has stored both a
\* compressed size and a processed image, or neither.
C3_NoPartialCompletion ==
  lastEnded # Null => (lastEnded.wroteSize <=> lastEnded.wroteImage)

\* C4 (as claimed): in every reachable state a non-null processedImage and a
\* non-zero compressedSize were produced from the currently selected file.
C4_OutputBelongsToSelectedFile ==
  /\ processedImage # Null =>
        selectedFile # Null /\ processedImage.of = selectedFile.id
  /\ compressedSize # 0 =>
        selectedFile # Null /\ compressedFrom = selectedFile.id

\* C5 (as claimed): every crop-mode toggle and every completed upload leaves
\* completedCrop undefined.
C5_ToggleAndUploadClearCrop ==
  [][(ToggleStep \/ SelectCompletes) => completedCrop' = Null]_vars

\* C5 (amended): every completed upload leaves completedCrop undefined; a
\* crop-mode toggle flips showCrop and leaves completedCrop as it was.
C5_UploadClearsCropToggleKeepsIt ==
  [][/\ SelectCompletes => completedCrop' = Null
     /\ ToggleStep => completedCrop' = completedCrop]_vars

\* C5 witness: a crop rectangle is held while crop mode is off, which only a
\* Done Cropping click after a completed crop produces.
C5_Witness == completedCrop # Null /\ ~showCrop /\ selectedFile # Null

\* processImage calls between their start and the delivery of their result or error
RunsInFlight == { i \in DOMAIN runs : runs[i].pc \in {"crop", "compress", "pdf", "read", "hung"} }

\* C6 (as claimed): at most one processImage call is between its start and
\* the delivery of its result or error.
C6_AtMostOneRunInFlight == Cardinality(RunsInFlight) <= 1

\* q = k * a / b, for a fraction q
IsProduct(q, k, a, b) == q.n * b = k * a * q.d

\* C7: for a crop rectangle within the displayed bounds, getCroppedImage
\* reads the source rectangle (x*scaleX, y*scaleY, width*scaleX, height*scaleY)
\* with scaleX = naturalWidth/width and scaleY = naturalHeight/height, which is
\* exactly twice the rectangle when the display is half the native size, and
\* draws it into a canvas of exactly the rectangle's width and height.
C7_CropGeometry ==
  canvas # Null =>
    /\ canvas.width = cropArg.width
    /\ canvas.height = cropArg.height
    /\ IsProduct(canvas.sx, cropArg.x, image.naturalWidth, image.width)
    /\ IsProduct(canvas.sy, cropArg.y, image.naturalHeight, image.height)
    /\ IsProduct(canvas.sw, cropArg.width, image.naturalWidth, image.width)
    /\ IsProduct(canvas.sh, cropArg.height, image.naturalHeight, image.height)
    /\ (image.naturalWidth = 2 * image.width /\ image.naturalHeight = 2 * image.height) =>
          /\ canvas.sx = [n |-> 2 * cropArg.x, d |-> 1]
          /\ canvas.sy = [n |-> 2 * cropArg.y, d |-> 1]
          /\ canvas.sw = [n |-> 2 * cropArg.width, d |-> 1]
          /\ canvas.sh = [n |-> 2 * cropArg.height, d |-> 1]

\* C7 witness: a canvas drawn for a non-empty rectangle away from the origin
\* of an image displayed at half its native size.
C7_Witness ==
  /\ canvas # Null
  /\ image.naturalWidth = 2 * image.width
  /\ image.naturalHeight = 2 * image.height
  /\ cropArg.x > 0 /\ cropArg.y > 0
  /\ cropArg.width > 0 /\ cropArg.height > 0
  /\ canvas.sw.n > canvas.width

\* C8 (as claimed): a processImage call started while a completed crop is
\* held works on the cropped region, whether or not crop mode is shown.
C8_CompletedCropIsApplied ==
  \A i \in DOMAIN runs : runs[i].hadCrop => runs[i].canvas # Null

\* C9 (as claimed): every processImage call that starts eventually ends with
\* isProcessing reset to false.
C9_ProcessingEventuallyResets == isProcessing ~> ~isProcessing

\* C10 (as claimed): the extension in the download name equals the format
\* the downloaded output was encoded with.
C10_DownloadExtensionMatchesEncoding ==
  lastDownload # Null => lastDownload.download.ext = lastDownload.href.fmt
====
